---- MODULE Spec2Model ----
(***************************************************************************)
(* The ADX table-mapping resource (adx/resource_adx_table_mapping.go):     *)
(* Create/Update, Read and Delete against the Kusto management client,     *)
(* the resource-ID format, and the mapping codec (expandTableMapping,      *)
(* flattenTableMapping).                                                   *)
(*                                                                         *)
(* A Go string is a sequence of characters; a character is a one-letter    *)
(* TLA+ string (a code point that has no TLA+ spelling is named "U+XXXX"). *)
(***************************************************************************)
EXTENDS Integers, Sequences, FiniteSets, TLC

QUOTE == "\""
BSLASH == "\\"

(* ------------------------------------------------------------------ *)
(* Text helpers                                                       *)
(* ------------------------------------------------------------------ *)

UpperLetters ==
  <<"A","B","C","D","E","F","G","H","I","J","K","L","M",
    "N","O","P","Q","R","S","T","U","V","W","X","Y","Z">>

LowerLetters ==
  <<"a","b","c","d","e","f","g","h","i","j","k","l","m",
    "n","o","p","q","r","s","t","u","v","w","x","y","z">>

LowerOf ==
  [c \in {UpperLetters[k] : k \in 1..26} |->
     LowerLetters[CHOOSE k \in 1..26 : UpperLetters[k] = c]]

ToLowerChar(c) == IF c \in DOMAIN LowerOf THEN LowerOf[c] ELSE c

\* strings.ToLower
ToLower(s) == [i \in 1..Len(s) |-> ToLowerChar(s[i])]

\* strings.Join(parts, sep)
RECURSIVE Join(_, _)
Join(parts, sep) ==
  IF Len(parts) = 0 THEN <<>>
  ELSE IF Len(parts) = 1 THEN parts[1]
  ELSE parts[1] \o sep \o Join(Tail(parts), sep)

(* ------------------------------------------------------------------ *)
(* expandTableMapping: []interface{} -> string                        *)
(* A block is a map (a function on a set of keys); the transform key   *)
(* may be missing, which is what a failed .(string) assertion sees.    *)
(* ------------------------------------------------------------------ *)

kColumn == <<"c","o","l","u","m","n">>
kPath == <<"p","a","t","h">>
kDatatype == <<"d","a","t","a","t","y","p","e">>
kTransform == <<"t","r","a","n","s","f","o","r","m">>

\* "key":"value", the %s verbs copy the value as it is
Pair(key, value) == <<QUOTE>> \o key \o <<QUOTE, ":", QUOTE>> \o value \o <<QUOTE>>

\* expandBlock without the len(t) != 0 test
expandBlock_noLenCheck(block) ==
  LET mapping == Pair(kColumn, block.column) \o <<",">> \o Pair(kPath, block.path)
                   \o <<",">> \o Pair(kDatatype, block.datatype)
      withT == IF "transform" \in DOMAIN block
               THEN mapping \o <<",">> \o Pair(kTransform, block.transform)
               ELSE mapping
  IN <<"{">> \o withT \o <<"}">>

\* the body of the loop of expandTableMapping, for one block
expandBlock(block) ==
  LET mapping == Pair(kColumn, block.column) \o <<",">> \o Pair(kPath, block.path)
                   \o <<",">> \o Pair(kDatatype, block.datatype)
      ok == "transform" \in DOMAIN block
      withT == IF ok /\ Len(block.transform) # 0
               THEN mapping \o <<",">> \o Pair(kTransform, block.transform)
               ELSE mapping
  IN <<"{">> \o withT \o <<"}">>

expandTableMapping(input) ==
  IF Len(input) = 0 THEN <<>>
  ELSE Join([i \in 1..Len(input) |-> expandBlock(input[i])], <<",">>)

(* ------------------------------------------------------------------ *)
(* encoding/json, as json.Unmarshal(data, &[]Mapping) uses it:         *)
(* the whole input is scanned for syntax first, then decoded.          *)
(* ------------------------------------------------------------------ *)

WS == {" ", "\t", "\n", "\r"}
Digits == {"0","1","2","3","4","5","6","7","8","9"}
HexDigits == Digits \cup {"a","b","c","d","e","f","A","B","C","D","E","F"}
\* code points below U+0020 that the model's alphabets can spell
ControlChars == {"\t", "\n", "\r", "\f", "U+0008"}

Fail == [ok |-> FALSE, pos |-> 0, val |-> <<>>]
Ok(p, v) == [ok |-> TRUE, pos |-> p, val |-> v]

RECURSIVE SkipWS(_, _)
SkipWS(s, i) == IF i <= Len(s) /\ s[i] \in WS THEN SkipWS(s, i + 1) ELSE i

\* the character an escape \b \f \n \r \t stands for
EscapeChar(c) ==
  CASE c = "b" -> "U+0008"
    [] c = "f" -> "\f"
    [] c = "n" -> "\n"
    [] c = "r" -> "\r"
    [] c = "t" -> "\t"

\* the character \uXXXX stands for (surrogate pairs are not modelled)
CodePoint(h) ==
  LET l == ToLower(h) IN
  CASE l = <<"0","0","2","2">> -> QUOTE
    [] l = <<"0","0","5","c">> -> BSLASH
    [] l = <<"0","0","0","a">> -> "\n"
    [] l = <<"0","0","0","9">> -> "\t"
    [] l = <<"0","0","6","1">> -> "a"
    [] l = <<"0","0","6","2">> -> "b"
    [] OTHER -> "U+" \o l[1] \o l[2] \o l[3] \o l[4]

\* a string literal's content, from the character after the opening quote
RECURSIVE ScanString(_, _, _)
ScanString(s, i, acc) ==
  IF i > Len(s) THEN Fail
  ELSE IF s[i] = QUOTE THEN Ok(i + 1, acc)
  ELSE IF s[i] \in ControlChars THEN Fail
  ELSE IF s[i] = BSLASH THEN
    IF i + 1 > Len(s) THEN Fail
    ELSE IF s[i + 1] \in {QUOTE, BSLASH, "/"}
      THEN ScanString(s, i + 2, Append(acc, s[i + 1]))
    ELSE IF s[i + 1] \in {"b", "f", "n", "r", "t"}
      THEN ScanString(s, i + 2, Append(acc, EscapeChar(s[i + 1])))
    ELSE IF s[i + 1] = "u" /\ i + 5 <= Len(s)
              /\ \A k \in 2..5 : s[i + k] \in HexDigits
      THEN ScanString(s, i + 6, Append(acc, CodePoint(SubSeq(s, i + 2, i + 5))))
    ELSE Fail
  ELSE ScanString(s, i + 1, Append(acc, s[i]))

RECURSIVE ScanDigits(_, _)
ScanDigits(s, i) == IF i <= Len(s) /\ s[i] \in Digits THEN ScanDigits(s, i + 1) ELSE i

\* -?(0|[1-9][0-9]*)(\.[0-9]+)?([eE][+-]?[0-9]+)? ; 0 when s has no number at i
ScanNumber(s, i) ==
  LET a == IF i <= Len(s) /\ s[i] = "-" THEN i + 1 ELSE i
      b == IF a <= Len(s) /\ s[a] = "0" THEN a + 1 ELSE ScanDigits(s, a)
      hasFrac == b <= Len(s) /\ s[b] = "."
      c == IF hasFrac THEN ScanDigits(s, b + 1) ELSE b
      hasExp == c <= Len(s) /\ s[c] \in {"e", "E"}
      e0 == IF c + 1 <= Len(s) /\ s[c + 1] \in {"+", "-"} THEN c + 2 ELSE c + 1
      e == IF hasExp THEN ScanDigits(s, e0) ELSE c
  IN IF b = a THEN 0
     ELSE IF hasFrac /\ c = b + 1 THEN 0
     ELSE IF hasExp /\ e = e0 THEN 0
     ELSE e

HasAt(s, i, w) == i + Len(w) - 1 <= Len(s) /\ SubSeq(s, i, i + Len(w) - 1) = w

\* The scanner and decoder step by step: each step hands what it read to the next.
RECURSIVE ParseValue(_, _)
RECURSIVE ParseElements(_, _, _)
RECURSIVE ParseMembers(_, _, _)

StringValue(r) == IF r.ok THEN Ok(r.pos, [t |-> "string", v |-> r.val]) ELSE Fail

NumberValue(e) == IF e = 0 THEN Fail ELSE Ok(e, [t |-> "number", v |-> <<>>])

\* after "[": an empty array, or its elements
ArrayAt(s, j) ==
  IF j <= Len(s) /\ s[j] = "]" THEN Ok(j + 1, [t |-> "array", v |-> <<>>])
  ELSE ParseElements(s, j, <<>>)

\* after "{": an empty object, or its members
ObjectAt(s, j) ==
  IF j <= Len(s) /\ s[j] = "}" THEN Ok(j + 1, [t |-> "object", v |-> <<>>])
  ELSE ParseMembers(s, j, <<>>)

ValueAt(s, i) ==
  IF i > Len(s) THEN Fail
  ELSE IF s[i] = QUOTE THEN StringValue(ScanString(s, i + 1, <<>>))
  ELSE IF s[i] = "[" THEN ArrayAt(s, SkipWS(s, i + 1))
  ELSE IF s[i] = "{" THEN ObjectAt(s, SkipWS(s, i + 1))
  ELSE IF s[i] \in Digits \cup {"-"} THEN NumberValue(ScanNumber(s, i))
  ELSE IF HasAt(s, i, <<"t","r","u","e">>) THEN Ok(i + 4, [t |-> "bool", v |-> <<>>])
  ELSE IF HasAt(s, i, <<"f","a","l","s","e">>) THEN Ok(i + 5, [t |-> "bool", v |-> <<>>])
  ELSE IF HasAt(s, i, <<"n","u","l","l">>) THEN Ok(i + 4, [t |-> "null", v |-> <<>>])
  ELSE Fail

ParseValue(s, i) == ValueAt(s, SkipWS(s, i))

\* after an array element: a comma and the next one, or the closing bracket
ElementSep(s, j, acc) ==
  IF j > Len(s) THEN Fail
  ELSE IF s[j] = "," THEN ParseElements(s, j + 1, acc)
  ELSE IF s[j] = "]" THEN Ok(j + 1, [t |-> "array", v |-> acc])
  ELSE Fail

AfterElement(s, acc, r) ==
  IF ~r.ok THEN Fail ELSE ElementSep(s, SkipWS(s, r.pos), Append(acc, r.val))

ParseElements(s, i, acc) == AfterElement(s, acc, ParseValue(s, i))

\* after an object member: a comma and the next one, or the closing brace
MemberSep(s, j, acc) ==
  IF j > Len(s) THEN Fail
  ELSE IF s[j] = "," THEN ParseMembers(s, j + 1, acc)
  ELSE IF s[j] = "}" THEN Ok(j + 1, [t |-> "object", v |-> acc])
  ELSE Fail

AfterMember(s, acc, key, r) ==
  IF ~r.ok THEN Fail
  ELSE MemberSep(s, SkipWS(s, r.pos), Append(acc, [key |-> key, val |-> r.val]))

MemberColon(s, acc, key, c) ==
  IF c > Len(s) \/ s[c] # ":" THEN Fail
  ELSE AfterMember(s, acc, key, ParseValue(s, c + 1))

AfterKey(s, acc, key) ==
  IF ~key.ok THEN Fail ELSE MemberColon(s, acc, key.val, SkipWS(s, key.pos))

MemberAt(s, k, acc) ==
  IF k > Len(s) \/ s[k] # QUOTE THEN Fail
  ELSE AfterKey(s, acc, ScanString(s, k + 1, <<>>))

ParseMembers(s, i, acc) == MemberAt(s, SkipWS(s, i), acc)

TopLevel(s, r) == IF r.ok /\ SkipWS(s, r.pos) > Len(s) THEN r ELSE Fail

\* checkValid: one JSON value, then only white space
ParseJSON(s) == TopLevel(s, ParseValue(s, 1))

\* type Mapping struct: the zero value, and the field a JSON key names
\* (the exact tag first, then a case-insensitive match)
ZeroMapping == [Column |-> <<>>, Path |-> <<>>, DataType |-> <<>>, Transform |-> <<>>]

FieldNamed(k) ==
  CASE k = kColumn -> "Column"
    [] k = kPath -> "Path"
    [] k = kDatatype -> "DataType"
    [] k = kTransform -> "Transform"
    [] OTHER -> "none"

FieldOf(key) ==
  IF key \in {kColumn, kPath, kDatatype, kTransform} THEN FieldNamed(key)
  ELSE FieldNamed(ToLower(key))

\* one member stored into a Mapping: a value that is no string leaves the
\* field as it is (null silently, the others with a type error)
StoreMember(m, f, val) ==
  IF f # "none" /\ val.t = "string" THEN [m EXCEPT ![f] = val.v] ELSE m

\* an object's members stored in order
RECURSIVE StoreMembers(_, _)
StoreMembers(m, members) ==
  IF Len(members) = 0 THEN m
  ELSE StoreMembers(StoreMember(m, FieldOf(members[1].key), members[1].val),
                    Tail(members))

\* an array element decoded into a fresh Mapping
DecodeElement(tree) ==
  IF tree.t = "object" THEN StoreMembers(ZeroMapping, tree.v) ELSE ZeroMapping

MemberTypeError(member) ==
  FieldOf(member.key) # "none" /\ member.val.t \notin {"string", "null"}

ElementTypeError(tree) ==
  IF tree.t = "object" THEN \E k \in 1..Len(tree.v) : MemberTypeError(tree.v[k])
  ELSE tree.t # "null"

\* the decoding of a scanned value into oMappings, nil before the call
Decode(r) ==
  IF ~r.ok THEN [err |-> "syntax", val |-> <<>>]
  ELSE IF r.val.t = "null" THEN [err |-> "none", val |-> <<>>]
  ELSE IF r.val.t # "array" THEN [err |-> "type", val |-> <<>>]
  ELSE [err |-> IF \E k \in 1..Len(r.val.v) : ElementTypeError(r.val.v[k])
                THEN "type" ELSE "none",
        val |-> [k \in 1..Len(r.val.v) |-> DecodeElement(r.val.v[k])]]

\* json.Unmarshal([]byte(input), &oMappings):
\* err is "syntax", "type" or "none"; val is oMappings after the call
Unmarshal(input) == Decode(ParseJSON(input))

\* flattenBlock with the datatype taken from the wrong field
flattenBlock_wrongField(v) ==
  [column |-> v.Column, path |-> v.Path, datatype |-> v.Path, transform |-> v.Transform]

flattenBlock(v) ==
  [column |-> v.Column, path |-> v.Path, datatype |-> v.DataType, transform |-> v.Transform]

\* the loop of flattenTableMapping over oMappings
flattenAll(oMappings) == [k \in 1..Len(oMappings) |-> flattenBlock(oMappings[k])]

\* flattenTableMapping returning nothing when Unmarshal reports an error
flattenTableMapping_checked(input) ==
  IF Len(input) = 0 \/ Unmarshal(input).err # "none" THEN <<>>
  ELSE flattenAll(Unmarshal(input).val)

\* flattenTableMapping: string -> []interface{}; Unmarshal's error is dropped
flattenTableMapping(input) ==
  IF Len(input) = 0 THEN <<>> ELSE flattenAll(Unmarshal(input).val)

(* ------------------------------------------------------------------ *)
(* The resource ID                                                     *)
(* ------------------------------------------------------------------ *)

\* fmt.Sprintf("%s|%s|%s|%s|%s", client.Endpoint(), databaseName, tableName,
\*             strings.ToLower(kind), name)
FormatID(endpoint, databaseName, tableName, kind, name) ==
  endpoint \o <<"|">> \o databaseName \o <<"|">> \o tableName \o <<"|">>
    \o ToLower(kind) \o <<"|">> \o name

\* strings.Split(s, sep) for a one-character separator
RECURSIVE SplitFrom(_, _, _, _)
SplitFrom(s, sep, i, cur) ==
  IF i > Len(s) THEN <<cur>>
  ELSE IF s[i] = sep THEN <<cur>> \o SplitFrom(s, sep, i + 1, <<>>)
  ELSE SplitFrom(s, sep, i + 1, Append(cur, s[i]))

Split(s, sep) == SplitFrom(s, sep, 1, <<>>)

NoID == [err |-> TRUE, EndpointURI |-> <<>>, DatabaseName |-> <<>>, TableName |-> <<>>,
         Kind |-> <<>>, Name |-> <<>>]

\* five fields, pipe-delimited, read by position; any other field count is an error
FieldsOfID(parts) ==
  IF Len(parts) # 5 THEN NoID
  ELSE [err |-> FALSE, EndpointURI |-> parts[1], DatabaseName |-> parts[2],
        TableName |-> parts[3], Kind |-> parts[4], Name |-> parts[5]]

parseADXTableMappingID(input) == FieldsOfID(Split(input, "|"))

(* ------------------------------------------------------------------ *)
(* The management client and the cluster behind it                     *)
(* A command is the statement's verb and the values its %s verbs copy  *)
(* in; the cluster keeps one mapping per (database, table, kind, name).*)
(* ------------------------------------------------------------------ *)

\* ".create-or-alter table %s ingestion %s mapping '%s' '[%s]'"
CreateCmd(databaseName, tableName, kind, name, mapping) ==
  [verb |-> ".create-or-alter", db |-> databaseName, table |-> tableName,
   kind |-> ToLower(kind), name |-> name, body |-> <<"[">> \o mapping \o <<"]">>]

\* ".show table %s ingestion %s mapping '%s'"
ShowCmd(id) ==
  [verb |-> ".show", db |-> id.DatabaseName, table |-> id.TableName,
   kind |-> ToLower(id.Kind), name |-> id.Name, body |-> <<>>]

\* ".drop table %s ingestion %s mapping '%s'"
DropCmd(id) ==
  [verb |-> ".drop", db |-> id.DatabaseName, table |-> id.TableName,
   kind |-> ToLower(id.Kind), name |-> id.Name, body |-> <<>>]

Names(cmd, rec) ==
  /\ rec.Database = cmd.db
  /\ rec.Table = cmd.table
  /\ rec.Kind = cmd.kind
  /\ rec.Name = cmd.name

\* the cluster after a command that succeeded
Apply(srv, cmd, now) ==
  CASE cmd.verb = ".create-or-alter" ->
         {rec \in srv : ~Names(cmd, rec)} \cup {[Database |-> cmd.db, Table |-> cmd.table, Kind |-> cmd.kind,
                       Name |-> cmd.name, Mapping |-> cmd.body, LastUpdatedOn |-> now]}
    [] cmd.verb = ".drop" -> {rec \in srv : ~Names(cmd, rec)}
    [] OTHER -> srv

\* the kind as the cluster spells it in a row
KindName(kind) == IF kind = <<"j","s","o","n">> THEN <<"J","s","o","n">> ELSE kind

\* the rows a .show returns: type TableMapping, one row when the mapping exists
Rows(srv, cmd) ==
  IF \E rec \in srv : Names(cmd, rec)
  THEN <<[(CHOOSE rec \in srv : Names(cmd, rec)) EXCEPT !.Kind = KindName(@)]>>
  ELSE <<>>

(* ------------------------------------------------------------------ *)
(* The three entry points, as functions of the ResourceData d, the     *)
(* cluster and what the management client answers.  Each returns the   *)
(* new d, the cluster, the commands sent and how the call ended:       *)
(* diag "ok" (empty diagnostics), "error", or "panic" (a run-time      *)
(* fault, which ends the call where it happens).                       *)
(* ------------------------------------------------------------------ *)

\* d.Set of the first row's fields
SetFromRows(d, schemas) ==
  [d EXCEPT !.table_name = schemas[1].Table,
            !.database_name = schemas[1].Database,
            !.kind = schemas[1].Kind,
            !.mapping = flattenTableMapping(schemas[1].Mapping),
            !.last_updated_on = schemas[1].LastUpdatedOn]

\* ReadRows taking an empty result as "not found": the ID cleared, no fault
ReadRows_notFound(d, rows, doOk) ==
  IF ~doOk THEN [d |-> d, diag |-> "error", why |-> "rows"]
  ELSE IF Len(rows) = 0 THEN [d |-> [d EXCEPT !.id = <<>>], diag |-> "ok", why |-> "none"]
  ELSE [d |-> SetFromRows(d, rows), diag |-> "ok", why |-> "none"]

\* resp.Do over the rows into schemas, then the stores from schemas[0]
ReadRows(d, rows, doOk) ==
  IF ~doOk THEN [d |-> d, diag |-> "error", why |-> "rows"]
  ELSE IF Len(rows) = 0 THEN [d |-> d, diag |-> "panic", why |-> "index"]
  ELSE [d |-> SetFromRows(d, rows), diag |-> "ok", why |-> "none"]

ReadSent(d, srv, cmd, showOk, doOk) ==
  IF ~showOk THEN [d |-> d, diag |-> "error", why |-> "mgmt", sent |-> <<cmd>>]
  ELSE ReadRows(d, Rows(srv, cmd), doOk) @@ [sent |-> <<cmd>>]

ReadWithID(d, id, srv, showOk, doOk) ==
  IF id.err THEN [d |-> d, diag |-> "error", why |-> "parse", sent |-> <<>>]
  ELSE ReadSent(d, srv, ShowCmd(id), showOk, doOk)

resourceADXTableMappingRead(d, srv, showOk, doOk) ==
  ReadWithID(d, parseADXTableMappingID(d.id), srv, showOk, doOk)

\* d.SetId(id)
SetId(d, endpoint) ==
  [d EXCEPT !.id = FormatID(endpoint, d.database_name, d.table_name, d.kind, d.name)]

\* another client may drop the mapping between the two commands
AfterRace(srv, cmd, raced) ==
  IF raced THEN {rec \in srv : ~Names(cmd, rec)} ELSE srv

\* CreateResult returning the Read's diagnostics
CreateResult_returnsRead(cmd, srv, r) ==
  [d |-> r.d, srv |-> srv, diag |-> r.diag,
   sent |-> <<cmd>> \o r.sent, readDiag |-> r.diag, readWhy |-> r.why]

\* the Read's diagnostics are dropped; `return diags` returns the empty list
CreateResult(cmd, srv, r) ==
  [d |-> r.d, srv |-> srv, diag |-> IF r.diag = "panic" THEN "panic" ELSE "ok",
   sent |-> <<cmd>> \o r.sent, readDiag |-> r.diag, readWhy |-> r.why]

\* CreateRefresh without the Read
CreateRefresh_noRead(d1, srv, cmd, showOk, doOk) ==
  [d |-> d1, srv |-> srv, diag |-> "ok", sent |-> <<cmd>>,
   readDiag |-> "none", readWhy |-> "none"]

CreateRefresh(d1, srv, cmd, showOk, doOk) ==
  CreateResult(cmd, srv, resourceADXTableMappingRead(d1, srv, showOk, doOk))

\* CreateSent with d.SetId before the error check
CreateSent_idFirst(d, srv, now, endpoint, cmd, createOk, raced, showOk, doOk) ==
  IF ~createOk
  THEN [d |-> SetId(d, endpoint), srv |-> srv, diag |-> "error", sent |-> <<cmd>>,
        readDiag |-> "none", readWhy |-> "none"]
  ELSE CreateRefresh(SetId(d, endpoint), AfterRace(Apply(srv, cmd, now), cmd, raced),
                     cmd, showOk, doOk)

\* CreateSent replacing the mapping the old ID names, as a ForceNew field would
CreateSent_replaces(d, srv, now, endpoint, cmd, createOk, raced, showOk, doOk) ==
  IF ~createOk
  THEN [d |-> d, srv |-> srv, diag |-> "error", sent |-> <<cmd>>,
        readDiag |-> "none", readWhy |-> "none"]
  ELSE CreateRefresh(SetId(d, endpoint),
                     AfterRace(Apply({rec \in srv :
                                        ~Names(ShowCmd(parseADXTableMappingID(d.id)), rec)},
                                     cmd, now), cmd, raced),
                     cmd, showOk, doOk)

CreateSent(d, srv, now, endpoint, cmd, createOk, raced, showOk, doOk) ==
  IF ~createOk
  THEN [d |-> d, srv |-> srv, diag |-> "error", sent |-> <<cmd>>,
        readDiag |-> "none", readWhy |-> "none"]
  ELSE CreateRefresh(SetId(d, endpoint), AfterRace(Apply(srv, cmd, now), cmd, raced),
                     cmd, showOk, doOk)

resourceADXTableMappingCreateUpdate(d, srv, now, endpoint, createOk, raced, showOk, doOk) ==
  CreateSent(d, srv, now, endpoint,
             CreateCmd(d.database_name, d.table_name, d.kind, d.name,
                       expandTableMapping(d.mapping)),
             createOk, raced, showOk, doOk)

\* DeleteSent without d.SetId("")
DeleteSent_keepsId(d, srv, now, cmd, dropOk) ==
  IF ~dropOk
  THEN [d |-> d, srv |-> srv, diag |-> "error", why |-> "mgmt", sent |-> <<cmd>>]
  ELSE [d |-> d, srv |-> Apply(srv, cmd, now),
        diag |-> "ok", why |-> "none", sent |-> <<cmd>>]

DeleteSent(d, srv, now, cmd, dropOk) ==
  IF ~dropOk
  THEN [d |-> d, srv |-> srv, diag |-> "error", why |-> "mgmt", sent |-> <<cmd>>]
  ELSE [d |-> [d EXCEPT !.id = <<>>], srv |-> Apply(srv, cmd, now),
        diag |-> "ok", why |-> "none", sent |-> <<cmd>>]

DeleteWithID(d, id, srv, now, dropOk) ==
  IF id.err THEN [d |-> d, srv |-> srv, diag |-> "error", why |-> "parse", sent |-> <<>>]
  ELSE DeleteSent(d, srv, now, DropCmd(id), dropOk)

resourceADXTableMappingDelete(d, srv, now, dropOk) ==
  DeleteWithID(d, parseADXTableMappingID(d.id), srv, now, dropOk)

(* ------------------------------------------------------------------ *)
(* State                                                               *)
(* ------------------------------------------------------------------ *)

VARIABLES
  d,        \* the ResourceData of the one resource instance
  server,   \* the mappings on the cluster
  clock,    \* the cluster's time, stamped on a mapping when it is written
  call,     \* the last call: what it was given, what it sent, how it ended
  live,     \* a Create/Update command has succeeded and no Delete has since
  cin,      \* codec: the blocks given to expandTableMapping
  cstr,     \* codec: the string in hand
  cout,     \* codec: what flattenTableMapping returned
  cread,    \* codec: Read's stores and diagnostics for a row carrying cstr
  cpc,      \* codec: the step reached
  cbad      \* codec: how the payload was damaged

vars == <<d, server, clock, call, live, cin, cstr, cout, cread, cpc, cbad>>
resourceVars == <<d, server, clock, call, live>>
codecVars == <<cin, cstr, cout, cread, cpc, cbad>>

MaxClock == 2

\* client.Endpoint()
Endpoint == <<"e">>

Json == <<"J","s","o","n">>

blockA == [column |-> <<"a">>, path |-> <<"$",".","a">>,
           datatype |-> <<"s","t","r","i","n","g">>, transform |-> <<>>]
blockB == [column |-> <<"b">>, path |-> <<"$",".","b">>, datatype |-> <<"i","n","t">>,
           transform |-> <<"D","a","t","e","T","i","m","e","F","r","o","m",
                           "U","n","i","x","S","e","c","o","n","d","s">>]

\* the base configuration; the others change its name, its table, its
\* database or the letter case of its kind, and one name holds the ID's
\* delimiter
BaseConfig ==
  [name |-> <<"m">>, table_name |-> <<"t">>, database_name |-> <<"d">>,
   kind |-> Json, mapping |-> <<blockA, blockB>>]

\* what a user may write; the schema's validation decides what reaches the
\* entry points
Written ==
  { BaseConfig,
    [BaseConfig EXCEPT !.name = <<"n">>, !.mapping = <<blockA>>],
    [BaseConfig EXCEPT !.table_name = <<"u">>, !.mapping = <<>>],
    [BaseConfig EXCEPT !.database_name = <<"c">>],
    [BaseConfig EXCEPT !.kind = <<"J","S","O","N">>, !.mapping = <<blockB>>],
    [BaseConfig EXCEPT !.name = <<"m","|","n">>, !.mapping = <<blockA>>],
    [BaseConfig EXCEPT !.name = <<>>],
    [BaseConfig EXCEPT !.kind = <<"C","s","v">>] }

\* ValidateDiagFunc of name, database_name and table_name
stringIsNotEmpty(v) == Len(v) # 0

\* ValidateDiagFunc of kind: one of `valid`, letter case ignored
stringInSlice(valid, v) == \E k \in 1..Len(valid) : ToLower(valid[k]) = ToLower(v)

Validated(cfg) ==
  /\ stringIsNotEmpty(cfg.name)
  /\ stringIsNotEmpty(cfg.database_name)
  /\ stringIsNotEmpty(cfg.table_name)
  /\ stringInSlice(<<Json>>, cfg.kind)

Configs == {cfg \in Written : Validated(cfg)}

NoConfig ==
  [name |-> <<>>, table_name |-> <<>>, database_name |-> <<>>, kind |-> <<>>,
   mapping |-> <<>>]

EmptyData ==
  [id |-> <<>>, name |-> <<>>, table_name |-> <<>>, database_name |-> <<>>,
   kind |-> <<>>, mapping |-> <<>>, last_updated_on |-> 0]

\* d as the framework hands it to Create (a new instance) or Update (the state kept)
WithConfig(data, cfg) ==
  [(IF data.id = <<>> THEN EmptyData ELSE data)
     EXCEPT !.name = cfg.name, !.table_name = cfg.table_name,
            !.database_name = cfg.database_name, !.kind = cfg.kind,
            !.mapping = cfg.mapping]

\* op: the entry point; cfg: the configuration given to Create/Update;
\* sent: the commands handed to client.Mgmt, in order; cmdOk: the entry point's
\* own command succeeded; diag: how the call ended; readDiag: how the Read
\* inside Create/Update ended; why: what stopped the Read (or the Delete)
NoCall ==
  [op |-> "none", cfg |-> NoConfig, sent |-> <<>>, diag |-> "ok",
   cmdOk |-> FALSE, readDiag |-> "none", why |-> "none"]

CodecIdle ==
  /\ cin = <<>> /\ cstr = <<>> /\ cout = <<>> /\ cpc = "idle"
  /\ cbad = [kind |-> "none", at |-> 0]
  /\ cread = [d |-> EmptyData, diag |-> "ok", why |-> "none"]

Init ==
  /\ d = EmptyData
  /\ server = {}
  /\ clock = 0
  /\ call = NoCall
  /\ live = FALSE
  /\ CodecIdle

(* ------------------------------------------------------------------ *)
(* The calls the framework makes, one after the other                  *)
(* ------------------------------------------------------------------ *)

CreateUpdate ==
  \E cfg \in Configs, createOk, raced, showOk, doOk \in BOOLEAN :
    /\ clock < MaxClock
    /\ ~createOk => (~raced /\ showOk /\ doOk)
    /\ ~showOk => doOk
    /\ raced => (showOk /\ doOk)
    /\ \E r \in {resourceADXTableMappingCreateUpdate(WithConfig(d, cfg), server,
                   clock + 1, Endpoint, createOk, raced, showOk, doOk)} :
          /\ d' = r.d
          /\ server' = r.srv
          /\ clock' = IF createOk THEN clock + 1 ELSE clock
          /\ call' = [op |-> "CreateUpdate", cfg |-> cfg, sent |-> r.sent,
                      diag |-> r.diag, cmdOk |-> createOk, readDiag |-> r.readDiag,
                      why |-> r.readWhy]
          /\ live' = (createOk \/ live)
    /\ UNCHANGED codecVars

\* the framework calls Read and Delete for an instance it holds in state
Read ==
  \E showOk, doOk \in BOOLEAN :
    /\ d.id # <<>>
    /\ ~showOk => doOk
    /\ \E r \in {resourceADXTableMappingRead(d, server, showOk, doOk)} :
          /\ d' = r.d
          /\ call' = [op |-> "Read", cfg |-> NoConfig, sent |-> r.sent,
                      diag |-> r.diag, cmdOk |-> (showOk /\ r.sent # <<>>),
                      readDiag |-> "none", why |-> r.why]
    /\ UNCHANGED <<server, clock, live>>
    /\ UNCHANGED codecVars

Delete ==
  \E dropOk \in BOOLEAN :
    /\ d.id # <<>>
    /\ \E r \in {resourceADXTableMappingDelete(d, server, clock, dropOk)} :
          /\ d' = r.d
          /\ server' = r.srv
          /\ call' = [op |-> "Delete", cfg |-> NoConfig, sent |-> r.sent,
                      diag |-> r.diag, cmdOk |-> (dropOk /\ r.sent # <<>>),
                      readDiag |-> "none", why |-> r.why]
          /\ live' = (live /\ r.diag # "ok")
    /\ UNCHANGED clock
    /\ UNCHANGED codecVars

\* another client of the cluster drops a mapping
OutOfBandDrop ==
  \E rec \in server :
    /\ server' = server \ {rec}
    /\ call' = [NoCall EXCEPT !.op = "OutOfBandDrop"]
    /\ UNCHANGED <<d, clock, live>>
    /\ UNCHANGED codecVars

Next == CreateUpdate \/ Read \/ Delete \/ OutOfBandDrop

Spec == Init /\ [][Next]_vars

(* ------------------------------------------------------------------ *)
(* The mapping codec on its own: blocks are expanded, the string is    *)
(* embedded in the command as Create/Update does ('[%s]'), the cluster *)
(* hands a payload back in a row, whole or damaged, and Read flattens  *)
(* it.                                                                 *)
(* ------------------------------------------------------------------ *)

MaxEntries == 2
MaxCut == 2

\* a block whose transform key is missing
blockC == [column |-> <<"c">>, path |-> <<"$">>, datatype |-> <<"i","n","t">>]

\* blocks holding a quote, a backslash or a control character
blockQ == [blockA EXCEPT !.column = <<"a", QUOTE, "b">>]
blockS == [blockA EXCEPT !.path = <<"$", BSLASH, "a">>]
blockN == [blockA EXCEPT !.path = <<"$", BSLASH, "n">>]
blockL == [blockA EXCEPT !.datatype = <<"i", "\n">>]
blockT == [blockB EXCEPT !.transform = <<"T", QUOTE>>]

CodecBlocks == {blockA, blockB, blockC, blockQ, blockS, blockN, blockL, blockT}

RECURSIVE ListsUpTo(_, _)
ListsUpTo(S, n) ==
  IF n = 0 THEN {<<>>}
  ELSE LET shorter == ListsUpTo(S, n - 1)
       IN shorter \cup {Append(l, x) : l \in {m \in shorter : Len(m) = n - 1}, x \in S}

CodecInputs == ListsUpTo(CodecBlocks, MaxEntries)

InsertAt(seq, k, x) == SubSeq(seq, 1, k - 1) \o <<x>> \o SubSeq(seq, k, Len(seq))

\* a JSON array of the given element texts
ArrayOf(elems) == <<"[">> \o Join(elems, <<",">>) \o <<"]">>

\* the block's object with the number 5 as its column
NumberColumn(block) ==
  LET e == expandBlock(block)
  IN SubSeq(e, 1, 10) \o <<"5">> \o SubSeq(e, 13 + Len(block.column), Len(e))

NoDamage == [kind |-> "none", at |-> 0]

Damages(blocks, payload) ==
  [kind : {"cut"}, at : {n \in 1..MaxCut : n <= Len(payload)}]
    \cup [kind : {"comma"}, at : {0}]
    \cup [kind : {"number", "null"}, at : 1..(Len(blocks) + 1)]
    \cup [kind : {"field"}, at : 1..Len(blocks)]

\* the payload a row carries after the damage
Damaged(blocks, payload, bad) ==
  LET elems == [i \in 1..Len(blocks) |-> expandBlock(blocks[i])] IN
  CASE bad.kind = "cut" -> SubSeq(payload, 1, Len(payload) - bad.at)
    [] bad.kind = "comma" -> SubSeq(payload, 1, Len(payload) - 1) \o <<",", "]">>
    [] bad.kind = "number" -> ArrayOf(InsertAt(elems, bad.at, <<"5">>))
    [] bad.kind = "null" -> ArrayOf(InsertAt(elems, bad.at, <<"n","u","l","l">>))
    [] bad.kind = "field" -> ArrayOf([elems EXCEPT ![bad.at] = NumberColumn(blocks[bad.at])])

\* the row of a .show whose Mapping column carries the payload
RowWith(payload) ==
  [Name |-> BaseConfig.name, Kind |-> BaseConfig.kind, Mapping |-> payload,
   LastUpdatedOn |-> 1, Table |-> BaseConfig.table_name,
   Database |-> BaseConfig.database_name]

\* the d a Read starts from
StoredData ==
  [WithConfig(EmptyData, BaseConfig) EXCEPT
     !.id = FormatID(Endpoint, BaseConfig.database_name, BaseConfig.table_name,
                     BaseConfig.kind, BaseConfig.name)]

CodecInit ==
  /\ d = EmptyData /\ server = {} /\ clock = 0 /\ call = NoCall /\ live = FALSE
  /\ cin \in CodecInputs
  /\ cstr = <<>> /\ cout = <<>> /\ cpc = "input" /\ cbad = NoDamage
  /\ cread = [d |-> EmptyData, diag |-> "ok", why |-> "none"]

CodecExpand ==
  /\ cpc = "input"
  /\ cstr' = expandTableMapping(cin)
  /\ cpc' = "expanded"
  /\ UNCHANGED <<cin, cout, cread, cbad>>
  /\ UNCHANGED resourceVars

\* flattenTableMapping on what expandTableMapping returned, as it is
CodecFlattenRaw ==
  /\ cpc = "expanded"
  /\ cout' = flattenTableMapping(cstr)
  /\ cpc' = "flatRaw"
  /\ UNCHANGED <<cin, cstr, cread, cbad>>
  /\ UNCHANGED resourceVars

\* the mapping as the .create-or-alter statement carries it
CodecEmbed ==
  /\ cpc = "expanded"
  /\ cstr' = CreateCmd(BaseConfig.database_name, BaseConfig.table_name, BaseConfig.kind,
                       BaseConfig.name, cstr).body
  /\ cpc' = "embedded"
  /\ UNCHANGED <<cin, cout, cread, cbad>>
  /\ UNCHANGED resourceVars

CodecDamage ==
  /\ cpc = "embedded"
  /\ \E bad \in Damages(cin, cstr) :
       /\ cstr' = Damaged(cin, cstr, bad)
       /\ cbad' = bad
  /\ cpc' = "damaged"
  /\ UNCHANGED <<cin, cout, cread>>
  /\ UNCHANGED resourceVars

CodecFlatten ==
  /\ cpc \in {"embedded", "damaged"}
  /\ cout' = flattenTableMapping(cstr)
  /\ cpc' = "flat"
  /\ UNCHANGED <<cin, cstr, cread, cbad>>
  /\ UNCHANGED resourceVars

\* Read's rows and stores, for a .show that returned the payload in one row
CodecRead ==
  /\ cpc = "flat"
  /\ cread' = ReadRows(StoredData, <<RowWith(cstr)>>, TRUE)
  /\ cpc' = "read"
  /\ UNCHANGED <<cin, cstr, cout, cbad>>
  /\ UNCHANGED resourceVars

CodecNext ==
  CodecExpand \/ CodecFlattenRaw \/ CodecEmbed \/ CodecDamage \/ CodecFlatten \/ CodecRead

SpecCodec == CodecInit /\ [][CodecNext]_vars

(* ------------------------------------------------------------------ *)
(* Properties of the codec (checked under SpecCodec)                   *)
(* ------------------------------------------------------------------ *)

Transform(block) == IF "transform" \in DOMAIN block THEN block.transform ELSE <<>>

\* the entries a list of blocks stands for: the four values of each, in order
Entries(blocks) ==
  [i \in 1..Len(blocks) |->
     [column |-> blocks[i].column, path |-> blocks[i].path,
      datatype |-> blocks[i].datatype, transform |-> Transform(blocks[i])]]

ZeroEntry == [column |-> <<>>, path |-> <<>>, datatype |-> <<>>, transform |-> <<>>]

ValuesOf(block) == {block.column, block.path, block.datatype, Transform(block)}

Holds(blocks, chars) ==
  \E i \in 1..Len(blocks) : \E v \in ValuesOf(blocks[i]) : \E k \in 1..Len(v) : v[k] \in chars

NonEmptyFields(blocks) ==
  \A i \in 1..Len(blocks) :
    blocks[i].column # <<>> /\ blocks[i].path # <<>> /\ blocks[i].datatype # <<>>

NoQuoteOrBackslash(blocks) == ~Holds(blocks, {QUOTE, BSLASH})

Plain(blocks) == ~Holds(blocks, {QUOTE, BSLASH} \cup ControlChars)

\* {"column":"C","path":"P","datatype":"D"}, with ,"transform":"T" before the
\* closing brace exactly when T is not empty
ObjectShape(block) ==
  <<"{", QUOTE, "c","o","l","u","m","n", QUOTE, ":", QUOTE>> \o block.column
    \o <<QUOTE, ",", QUOTE, "p","a","t","h", QUOTE, ":", QUOTE>> \o block.path
    \o <<QUOTE, ",", QUOTE, "d","a","t","a","t","y","p","e", QUOTE, ":", QUOTE>>
    \o block.datatype \o <<QUOTE>>
    \o (IF Transform(block) # <<>>
        THEN <<",", QUOTE, "t","r","a","n","s","f","o","r","m", QUOTE, ":", QUOTE>>
               \o Transform(block) \o <<QUOTE>>
        ELSE <<>>)
    \o <<"}">>

RECURSIVE ListShape(_)
ListShape(blocks) ==
  IF blocks = <<>> THEN <<>>
  ELSE IF Len(blocks) = 1 THEN ObjectShape(blocks[1])
  ELSE ObjectShape(blocks[1]) \o <<",">> \o ListShape(Tail(blocks))

\* {"column":"a","path":"$.a","datatype":"string"}
ExampleA ==
  <<"{", QUOTE,"c","o","l","u","m","n",QUOTE, ":", QUOTE,"a",QUOTE, ",",
    QUOTE,"p","a","t","h",QUOTE, ":", QUOTE,"$",".","a",QUOTE, ",",
    QUOTE,"d","a","t","a","t","y","p","e",QUOTE, ":", QUOTE,"s","t","r","i","n","g",QUOTE,
    "}">>

\* {"column":"b","path":"$.b","datatype":"int","transform":"DateTimeFromUnixSeconds"}
ExampleB ==
  <<"{", QUOTE,"c","o","l","u","m","n",QUOTE, ":", QUOTE,"b",QUOTE, ",",
    QUOTE,"p","a","t","h",QUOTE, ":", QUOTE,"$",".","b",QUOTE, ",",
    QUOTE,"d","a","t","a","t","y","p","e",QUOTE, ":", QUOTE,"i","n","t",QUOTE, ",",
    QUOTE,"t","r","a","n","s","f","o","r","m",QUOTE, ":",
    QUOTE,"D","a","t","e","T","i","m","e","F","r","o","m",
          "U","n","i","x","S","e","c","o","n","d","s",QUOTE,
    "}">>

\* C3: expandTableMapping returns the comma-joined objects of its blocks, in
\* order, each {"column":"C","path":"P","datatype":"D"} with ,"transform":"T"
\* inside the braces exactly when the transform is not empty (and not
\* missing); the empty list gives the empty string.
C3_ExpandShape ==
  cpc = "expanded" =>
    /\ cstr = ListShape(cin)
    /\ cin = <<>> => cstr = <<>>
    /\ cin = <<blockA>> => cstr = ExampleA
    /\ cin = <<blockB>> => cstr = ExampleB
    /\ cin = <<blockA, blockB>> => cstr = ExampleA \o <<",">> \o ExampleB

\* two blocks expanded: one with a transform, one whose transform key is missing
C3_Witness ==
  /\ cpc = "expanded"
  /\ Len(cin) = 2
  /\ Transform(cin[1]) # <<>>
  /\ "transform" \notin DOMAIN cin[2]
  /\ cstr = ListShape(cin)

\* C1 (as stated): flattenTableMapping(expandTableMapping(entries)) returns the
\* entries, in order, when column, path and datatype are not empty and no
\* value holds a quote or a backslash.
C1_RoundTripAsStated ==
  (cpc = "flatRaw" /\ NonEmptyFields(cin) /\ NoQuoteOrBackslash(cin))
    => cout = Entries(cin)

\* C1 (amended): flattenTableMapping of the array Create/Update embeds in its
\* command, "[" expandTableMapping(entries) "]", returns the entries, in order,
\* when column, path and datatype are not empty and no value holds a quote, a
\* backslash or a control character.
C1_RoundTripEmbedded ==
  (cpc = "flat" /\ cbad.kind = "none" /\ NonEmptyFields(cin) /\ Plain(cin))
    => cout = Entries(cin)

\* two different plain blocks, one with and one without a transform, flattened
\* back from the embedded array
C1_Witness ==
  /\ cpc = "flat" /\ cbad.kind = "none"
  /\ NonEmptyFields(cin) /\ Plain(cin)
  /\ Len(cin) = 2 /\ cin[1] # cin[2]
  /\ Transform(cin[1]) = <<>> /\ Transform(cin[2]) # <<>>
  /\ Len(cout) = 2

\* what Unmarshal leaves in oMappings for a damaged array of plain blocks
Expected(blocks, bad) ==
  CASE bad.kind = "none" -> Entries(blocks)
    [] bad.kind \in {"cut", "comma"} -> <<>>
    [] bad.kind \in {"number", "null"} -> InsertAt(Entries(blocks), bad.at, ZeroEntry)
    [] bad.kind = "field" -> [Entries(blocks) EXCEPT ![bad.at].column = <<>>]

\* the entries before the element the damage is in
BeforeDamage(blocks, bad) ==
  IF bad.kind \in {"number", "null", "field"}
  THEN SubSeq(Entries(blocks), 1, bad.at - 1)
  ELSE <<>>

\* C8 (as stated): for a payload that is no valid JSON array of mapping
\* objects, flattenTableMapping returns the empty list or only the entries
\* decoded before the error.
C8_OnlyEntriesBeforeError ==
  (cpc = "flat" /\ cbad.kind # "none" /\ Plain(cin))
    => (cout = <<>> \/ cout = BeforeDamage(cin, cbad))

\* C8 (amended): flattenTableMapping reports no error for any payload; it
\* returns the empty list when the payload is not well-formed JSON (or its top
\* level is no array), and otherwise one entry per array element, the
\* elements after a badly typed one included, with an element that is no
\* object, or a field whose value is no string, left as empty strings.  A
\* Read whose row carries the payload ends without an error diagnostic and
\* stores that list as the mapping; every entry has a transform, the empty
\* string when the key is absent.
C8_DecodeErrorsSwallowed ==
  /\ (cpc \in {"flat", "read"} /\ Plain(cin)) => cout = Expected(cin, cbad)
  /\ cpc \in {"flat", "read"} =>
       \A i \in 1..Len(cout) :
         DOMAIN cout[i] = {"column", "path", "datatype", "transform"}
  /\ cpc = "read" =>
       /\ cread.diag = "ok"
       /\ cread.d.mapping = cout
       /\ cread.d.id = StoredData.id
       /\ cread.d.last_updated_on = 1

\* a Read of an array with a number between two objects: three entries, the
\* second one empty
C8_Witness ==
  /\ cpc = "read"
  /\ cbad = [kind |-> "number", at |-> 2]
  /\ Len(cin) = 2 /\ Plain(cin)
  /\ Unmarshal(cstr).err = "type"
  /\ Len(cread.d.mapping) = 3
  /\ cread.d.mapping[2] = ZeroEntry
  /\ cread.diag = "ok"

(* ------------------------------------------------------------------ *)
(* Properties of the resource (checked under Spec)                     *)
(* ------------------------------------------------------------------ *)

IsCall == call.op \in {"CreateUpdate", "Read", "Delete"}

\* the identity a resource ID names, as the command that names it
Named(id) == ShowCmd(parseADXTableMappingID(id))

SameMapping(c1, c2) ==
  c1.db = c2.db /\ c1.table = c2.table /\ c1.kind = c2.kind /\ c1.name = c2.name

\* C2: after a Create/Update whose command succeeded for endpoint E, database
\* D, table T, kind K and name N, the resource ID is E|D|T|lower(K)|N and
\* parsing it yields E, D, T, lower(K), N, whatever the five values are.
C2_IDRoundTrip ==
  (call.op = "CreateUpdate" /\ call.cmdOk) =>
    /\ d.id = Endpoint \o <<"|">> \o call.cfg.database_name \o <<"|">>
                \o call.cfg.table_name \o <<"|">> \o ToLower(call.cfg.kind)
                \o <<"|">> \o call.cfg.name
    /\ parseADXTableMappingID(d.id) =
         [err |-> FALSE, EndpointURI |-> Endpoint,
          DatabaseName |-> call.cfg.database_name, TableName |-> call.cfg.table_name,
          Kind |-> ToLower(call.cfg.kind), Name |-> call.cfg.name]

\* C4: a Create/Update or Delete whose command the management client fails
\* ends with an error diagnostic, has sent that one command and no other, and
\* leaves the resource ID as it was: unset after a failed first Create, set
\* after a failed Delete.
C4_FailureKeepsID ==
  [][ /\ (call'.op = "CreateUpdate" /\ ~call'.cmdOk) =>
           /\ call'.diag = "error"
           /\ Len(call'.sent) = 1 /\ call'.sent[1].verb = ".create-or-alter"
           /\ d'.id = d.id
      /\ (call'.op = "Delete" /\ ~call'.cmdOk /\ call'.sent # <<>>) =>
           /\ call'.diag = "error"
           /\ Len(call'.sent) = 1 /\ call'.sent[1].verb = ".drop"
           /\ d'.id = d.id /\ d'.id # <<>>
    ]_vars

\* a first Create has failed: an error, one command, no ID
C4_Witness ==
  /\ call.op = "CreateUpdate" /\ ~call.cmdOk /\ call.diag = "error"
  /\ Len(call.sent) = 1
  /\ d.id = <<>> /\ clock = 0

\* C5: the instance is Present (its ID is not empty) exactly when a
\* Create/Update command has succeeded and no Delete has since; a Delete that
\* succeeds clears the ID, a Create/Update whose command succeeds sets it, and
\* a Read leaves it set or unset as it was.
C5_Lifecycle ==
  [][ /\ (d.id # <<>>) <=> live
      /\ (d'.id # <<>>) <=> live'
      /\ (call'.op = "Delete" /\ call'.cmdOk) => d'.id = <<>>
      /\ (call'.op = "CreateUpdate" /\ call'.cmdOk) => d'.id # <<>>
      /\ call'.op = "Read" => ((d'.id = <<>>) <=> (d.id = <<>>))
    ]_vars

\* Present, then Absent again: a Delete has succeeded after a Create
C5_Witness ==
  /\ call.op = "Delete" /\ call.cmdOk
  /\ d.id = <<>> /\ ~live /\ clock >= 1

\* C6 (as stated): every Create/Update, Read or Delete call sends exactly one
\* command: .create-or-alter, .show or .drop.
C6_OneCommandPerCall ==
  IsCall =>
    /\ Len(call.sent) = 1
    /\ call.sent[1].verb = (CASE call.op = "CreateUpdate" -> ".create-or-alter"
                              [] call.op = "Read" -> ".show"
                              [] call.op = "Delete" -> ".drop")

\* C6 (amended): a Create/Update sends .create-or-alter and, when that
\* succeeds, the .show of its follow-up Read: two commands; a Read sends one
\* .show and a Delete one .drop; a Read (also the follow-up one) or a Delete
\* whose resource ID does not parse sends nothing.
C6_CommandsPerCall ==
  /\ call.op = "CreateUpdate" =>
       /\ call.sent[1].verb = ".create-or-alter"
       /\ ~call.cmdOk => Len(call.sent) = 1
       /\ (call.cmdOk /\ parseADXTableMappingID(d.id).err) => Len(call.sent) = 1
       /\ (call.cmdOk /\ ~parseADXTableMappingID(d.id).err) =>
            Len(call.sent) = 2 /\ call.sent[2].verb = ".show"
  /\ call.op = "Read" =>
       IF parseADXTableMappingID(d.id).err THEN call.sent = <<>>
       ELSE Len(call.sent) = 1 /\ call.sent[1].verb = ".show"
  /\ call.op = "Delete" =>
       IF call.why = "parse"
       THEN call.sent = <<>> /\ parseADXTableMappingID(d.id).err
       ELSE Len(call.sent) = 1 /\ call.sent[1].verb = ".drop"

\* a Create/Update that succeeded and sent two commands
C6_Witness ==
  /\ call.op = "CreateUpdate" /\ call.cmdOk /\ call.diag = "ok"
  /\ Len(call.sent) = 2
  /\ call.sent[1].verb = ".create-or-alter" /\ call.sent[2].verb = ".show"

\* C7: a Read whose .show succeeds with no row does not end normally and does
\* not clear the ID: it faults on the first row, before any attribute is
\* stored.  So does the Read inside a Create/Update, after the ID is set.
C7_EmptyResultFaults ==
  [][ /\ ( /\ call'.op = "Read" /\ call'.cmdOk /\ call'.why # "rows"
           /\ Rows(server, Named(d.id)) = <<>> ) =>
             /\ call'.diag = "panic" /\ call'.why = "index"
             /\ d' = d
      /\ ( /\ call'.op = "CreateUpdate" /\ call'.cmdOk
           /\ ~parseADXTableMappingID(d'.id).err
           /\ Len(call'.sent) = 2 /\ call'.why \notin {"mgmt", "rows"}
           /\ Rows(server', Named(d'.id)) = <<>> ) =>
             /\ call'.diag = "panic" /\ call'.why = "index"
             /\ d'.id # <<>>
             /\ d' = [WithConfig(d, call'.cfg) EXCEPT !.id = d'.id]
      /\ (call'.op \in {"Read", "CreateUpdate"} /\ call'.diag = "panic") =>
             Rows(server', Named(d'.id)) = <<>>
    ]_vars

\* a Create/Update has faulted in its Read: the mapping was dropped in between
C7_Witness ==
  /\ call.op = "CreateUpdate" /\ call.cmdOk
  /\ call.diag = "panic" /\ call.why = "index"
  /\ d.id # <<>> /\ d.last_updated_on = 0
  /\ Rows(server, Named(d.id)) = <<>>

\* C9: once its .create-or-alter has succeeded, a Create/Update sets the ID and
\* returns no error diagnostic whatever its Read returns; when the Read
\* returns an error (the .show failed, a row did not decode, the ID did not
\* parse) the call still reports success, with the ID set and nothing refreshed.
C9_RefreshOutcomeIgnored ==
  [][ (call'.op = "CreateUpdate" /\ call'.cmdOk) =>
        /\ d'.id # <<>>
        /\ d'.id = FormatID(Endpoint, call'.cfg.database_name, call'.cfg.table_name,
                            call'.cfg.kind, call'.cfg.name)
        /\ call'.diag # "error"
        /\ call'.readDiag \in {"ok", "error"} => call'.diag = "ok"
        /\ call'.readDiag = "error" =>
             /\ call'.why \in {"mgmt", "rows", "parse"}
             /\ d' = [WithConfig(d, call'.cfg) EXCEPT !.id = d'.id]
    ]_vars

\* an Update reported success though its .show failed: the cluster holds a
\* newer mapping than the state shows
C9_Witness ==
  /\ call.op = "CreateUpdate" /\ call.cmdOk
  /\ call.readDiag = "error" /\ call.why = "mgmt" /\ call.diag = "ok"
  /\ d.id # <<>>
  /\ \E rec \in server :
       Names(Named(d.id), rec) /\ rec.LastUpdatedOn = 2 /\ d.last_updated_on = 1

ConfigChanges(data, cfg) ==
  \/ cfg.name # data.name
  \/ cfg.table_name # data.table_name
  \/ cfg.database_name # data.database_name
  \/ cfg.kind # data.kind

NeverDrops(sent) ==
  /\ sent[1].verb = ".create-or-alter"
  /\ \A k \in 1..Len(sent) : sent[k].verb # ".drop"

DeleteDropsOnlyNamed ==
  (call'.op = "Delete" /\ call'.cmdOk) =>
     /\ call'.sent = <<DropCmd(parseADXTableMappingID(d.id))>>
     /\ server' = {rec \in server : ~Names(Named(d.id), rec)}

====
